---- MODULE Spec2Model ----
(***************************************************************************)
(* A model of kno (src/main.rs): the note-path resolver (titlecase,        *)
(* resolve_note), the note store (open_note, append_to_note) and the tree  *)
(* renderer (list_tree, list_notes).                                       *)
(*                                                                         *)
(* Strings are sequences of characters.  A character is a one-character    *)
(* string; a character outside ASCII is written as its code point, e.g.    *)
(* "U+00DF" for the sharp s and "U+251C" for the box-drawing tee.  A byte  *)
(* that is not valid UTF-8 is written "0xFF".                              *)
(***************************************************************************)
EXTENDS Integers, Sequences, FiniteSets

VARIABLES
    tc_in, tc_out,                 \* titlecase: argument and result
    rs_in, rs_today, rs_out,       \* resolve_note: argument, Local::now(), result
    fs,                            \* the filesystem: path components -> node
    today,                         \* Local::now() as %Y-%m-%d
    file_path,                     \* main's file_path, once open_note returned
    ops,                           \* calls made so far
    last, prev,                    \* the last call and the one before it
    log,                           \* per note created by open_note: heading and appended lines
    ls_path, ls_depth, ls_out      \* list_notes: arguments and result

tcVars == <<tc_in, tc_out>>
rsVars == <<rs_in, rs_today, rs_out>>
stVars == <<fs, today, file_path, ops, last, prev, log>>
lsVars == <<ls_path, ls_depth, ls_out>>
vars == <<tc_in, tc_out, rs_in, rs_today, rs_out, fs, today, file_path, ops, last, prev, log,
          ls_path, ls_depth, ls_out>>

(***************************************************************************)
(* Bounds of the model                                                     *)
(***************************************************************************)
MaxTitleLen == 3       \* longest titlecase argument
MaxExprLen == 4        \* longest path expression given to resolve_note
MaxOps == 4            \* calls made on the note store in one behaviour
MaxEntries == 4        \* files and directories beneath the notes directory
MaxDepthArg == 2       \* largest max_depth given to list_notes

TitleAlphabet == {"a", "B", "-", "_", "U+00DF"}
ExprAlphabet == {"a", "b", "/", "-", "."}
\* values of Local::now().format("%Y-%m-%d")
Dates == {<<"2", "0", "2", "6", "-", "0", "2", "-", "1", "5">>,
          <<"1", "9", "9", "9", "-", "1", "2", "-", "3", "1">>}

(***************************************************************************)
(* Generic string helpers                                                  *)
(***************************************************************************)
RECURSIVE SeqsUpTo(_, _)
SeqsUpTo(S, n) ==
    IF n = 0 THEN {<<>>}
    ELSE LET shorter == SeqsUpTo(S, n - 1)
         IN  shorter \cup {Append(s, c) : s \in {t \in shorter : Len(t) = n - 1}, c \in S}

RECURSIVE Flatten(_)
Flatten(ss) == IF ss = <<>> THEN <<>> ELSE Head(ss) \o Flatten(Tail(ss))

EndsWith(s, c) == Len(s) > 0 /\ s[Len(s)] = c
StartsWith(s, c) == Len(s) > 0 /\ s[1] = c

\* Option<T>
None == <<"None">>
Some(v) == <<"Some", v>>
IsSome(o) == o[1] = "Some"
Unwrap(o) == o[2]

\* str::split(pat): the pieces between the characters of Seps, empty pieces kept
RECURSIVE SplitAcc(_, _, _)
SplitAcc(s, Seps, cur) ==
    IF s = <<>> THEN <<cur>>
    ELSE IF Head(s) \in Seps THEN <<cur>> \o SplitAcc(Tail(s), Seps, <<>>)
    ELSE SplitAcc(Tail(s), Seps, Append(cur, Head(s)))

Split(s, Seps) == SplitAcc(s, Seps, <<>>)

\* [String]::join(sep)
RECURSIVE Join(_, _)
Join(words, sep) ==
    IF words = <<>> THEN <<>>
    ELSE IF Len(words) = 1 THEN words[1]
    ELSE words[1] \o sep \o Join(Tail(words), sep)

\* char::to_uppercase: may yield more than one character
ToUppercase(c) ==
    CASE c = "a" -> <<"A">>
      [] c = "b" -> <<"B">>
      [] c = "x" -> <<"X">>
      [] c = "U+00DF" -> <<"S", "S">>
      [] OTHER -> <<c>>

(***************************************************************************)
(* titlecase                                                               *)
(***************************************************************************)
\* the closure given to map: the first character uppercased, the rest kept
TitlecaseWord(word) ==
    IF word = <<>> THEN <<>>
    ELSE ToUppercase(Head(word)) \o Tail(word)

TitlecaseSeps == {"-", "_"}

\* mutant: empty words are dropped before joining
titlecaseSkipEmpty(s) ==
    LET words == SelectSeq(Split(s, TitlecaseSeps), LAMBDA w : w # <<>>)
    IN  Join([i \in 1..Len(words) |-> TitlecaseWord(words[i])], <<" ">>)

titlecase(s) ==
    LET words == Split(s, TitlecaseSeps)
    IN  Join([i \in 1..Len(words) |-> TitlecaseWord(words[i])], <<" ">>)

(***************************************************************************)
(* std::path                                                               *)
(***************************************************************************)
\* PathBuf::push / Path::join: an absolute argument replaces the path,
\* otherwise a separator is added unless the path is empty or ends in one
PathJoin(base, p) ==
    IF StartsWith(p, "/") THEN p
    ELSE IF base = <<>> \/ EndsWith(base, "/") THEN base \o p
    ELSE base \o <<"/">> \o p

\* Path::components, normal components only: empty and "." pieces vanish
Components(p) == SelectSeq(Split(p, {"/"}), LAMBDA w : w # <<>> /\ w # <<".">>)

\* Path::file_name: the last component unless it is ".."
FileName(p) ==
    LET cs == Components(p)
    IN  IF cs = <<>> \/ cs[Len(cs)] = <<".", ".">> THEN None ELSE Some(cs[Len(cs)])

LastIndexOf(s, c) ==
    LET I == {i \in 1..Len(s) : s[i] = c} IN
    IF I = {} THEN 0 ELSE CHOOSE i \in I : \A j \in I : j <= i

\* rsplit_file_at_dot: (before, after) the last dot of a file name
RsplitFileAtDot(file) ==
    IF file = <<".", ".">> THEN <<Some(file), None>>
    ELSE LET d == LastIndexOf(file, ".") IN
         IF d = 0 THEN <<None, Some(file)>>
         ELSE IF d = 1 THEN <<Some(file), None>>
         ELSE <<Some(SubSeq(file, 1, d - 1)), Some(SubSeq(file, d + 1, Len(file)))>>

\* Path::file_stem
FileStem(p) ==
    LET f == FileName(p) IN
    IF ~IsSome(f) THEN None
    ELSE LET ba == RsplitFileAtDot(Unwrap(f))
         IN  IF IsSome(ba[1]) THEN ba[1] ELSE ba[2]

\* Path::extension
Extension(p) ==
    LET f == FileName(p) IN
    IF ~IsSome(f) THEN None
    ELSE LET ba == RsplitFileAtDot(Unwrap(f))
         IN  IF IsSome(ba[1]) THEN ba[2] ELSE None

(***************************************************************************)
(* resolve_note                                                            *)
(***************************************************************************)
DotMd == <<".", "m", "d">>
Daily == <<"d", "a", "i", "l", "y">>
Hash == <<"#", " ">>

\* mutant: the date split at its last hyphen
Splitn2Last(s) ==
    LET i == LastIndexOf(s, "-") IN
    IF i = 0 THEN <<s>> ELSE <<SubSeq(s, 1, i - 1), SubSeq(s, i + 1, Len(s))>>

\* str::splitn(2, '-'): split at the first hyphen only
Splitn2(s) ==
    LET I == {i \in 1..Len(s) : s[i] = "-"} IN
    IF I = {} THEN <<s>>
    ELSE LET i == CHOOSE k \in I : \A j \in I : k <= j
         IN  <<SubSeq(s, 1, i - 1), SubSeq(s, i + 1, Len(s))>>

resolve_daily(now) ==
    LET parts == Splitn2(now)
        year == parts[1]
        rest == parts[2]
    IN  [path |-> PathJoin(PathJoin(Daily, year), rest \o DotMd),
         header |-> Hash \o now]

resolve_dir(note_path, now) ==
    [path |-> PathJoin(note_path, now \o DotMd), header |-> Hash \o now]

resolve_explicit(note_path) ==
    LET path == note_path \o DotMd
        stem == Unwrap(FileStem(path))
    IN  [path |-> path, header |-> Hash \o titlecase(stem)]

resolve_note(path, now) ==
    IF ~IsSome(path) THEN resolve_daily(now)
    ELSE IF EndsWith(Unwrap(path), "/") THEN resolve_dir(Unwrap(path), now)
    ELSE resolve_explicit(Unwrap(path))

(***************************************************************************)
(* std::fs over a filesystem fs: absolute component sequence -> node       *)
(***************************************************************************)
DirNode == [kind |-> "dir", data |-> <<>>]
FileNode(data) == [kind |-> "file", data |-> data]

Exists(f, k) == k \in DOMAIN f
IsDir(f, k) == Exists(f, k) /\ f[k].kind = "dir"
IsFile(f, k) == Exists(f, k) /\ f[k].kind = "file"

Prefixes(k) == {SubSeq(k, 1, i) : i \in 0..Len(k)}
\* Path::parent, on components
Parent(k) == SubSeq(k, 1, Len(k) - 1)

Ok(f) == [ok |-> TRUE, fs |-> f]
Err(f) == [ok |-> FALSE, fs |-> f]

\* fs::create_dir_all: fails when a component is taken by a non-directory
create_dir_all(f, k) ==
    IF \E p \in Prefixes(k) : Exists(f, p) /\ ~IsDir(f, p) THEN Err(f)
    ELSE Ok([x \in DOMAIN f \cup Prefixes(k) |-> IF x \in DOMAIN f THEN f[x] ELSE DirNode])

InvalidUtf8 == {"0xFF"}
\* fs::read_to_string: Err on a directory, a missing file, invalid UTF-8
read_to_string(f, k) ==
    IF IsFile(f, k) /\ \A i \in 1..Len(f[k].data) : f[k].data[i] \notin InvalidUtf8
    THEN Some(f[k].data) ELSE None

\* char::is_whitespace
White == {" ", "\n", "\t"}

RECURSIVE TrimStart(_)
TrimStart(s) == IF s # <<>> /\ Head(s) \in White THEN TrimStart(Tail(s)) ELSE s

RECURSIVE TrimEnd(_)
TrimEnd(s) ==
    IF s # <<>> /\ s[Len(s)] \in White THEN TrimEnd(SubSeq(s, 1, Len(s) - 1)) ELSE s

\* str::trim
Trim(s) == TrimEnd(TrimStart(s))

\* mutant: fs::write opened in append mode
fs_write_append(f, k, data) ==
    IF IsDir(f, k) \/ ~IsDir(f, Parent(k)) THEN Err(f)
    ELSE Ok([x \in DOMAIN f \cup {k} |->
                IF x = k THEN FileNode((IF IsFile(f, k) THEN f[k].data ELSE <<>>) \o data)
                ELSE f[x]])

\* fs::write: creates or truncates the file, then writes data
fs_write(f, k, data) ==
    IF IsDir(f, k) \/ ~IsDir(f, Parent(k)) THEN Err(f)
    ELSE Ok([x \in DOMAIN f \cup {k} |-> IF x = k THEN FileNode(data) ELSE f[x]])

(***************************************************************************)
(* open_note, append_to_note                                               *)
(***************************************************************************)
NotesDir == <<"/", "n">>
Key(p) == Components(p)

\* mutant: only an empty file counts as blank
needs_header_no_trim(f, k) ==
    ~Exists(f, k) \/
    (LET c == read_to_string(f, k) IN IF IsSome(c) THEN Unwrap(c) = <<>> ELSE TRUE)

needs_header(f, k) ==
    ~Exists(f, k) \/
    (LET c == read_to_string(f, k) IN IF IsSome(c) THEN Trim(Unwrap(c)) = <<>> ELSE TRUE)

\* the result of a call: how it ended, what it returned, the filesystem it left
Returned(ret, f) == [status |-> "ok", ret |-> ret, fs |-> f]
Panicked(f) == [status |-> "panic", ret |-> <<>>, fs |-> f]

open_note(f, notes_dir, path, now) ==
    LET r == resolve_note(path, now)
        fp == PathJoin(notes_dir, r.path)
        k == Key(fp)
        made == create_dir_all(f, Parent(k))
    IN  IF ~made.ok THEN Panicked(made.fs)
        ELSE IF ~needs_header(made.fs, k) THEN Returned(fp, made.fs)
        ELSE LET w == fs_write(made.fs, k, r.header \o <<"\n", "\n">>)
             IN  IF w.ok THEN Returned(fp, w.fs) ELSE Panicked(w.fs)

\* mutant: a line the note already ends with is not appended again
append_dedup(f, fp, text) ==
    LET k == Key(fp) IN
    IF ~IsFile(f, k) THEN Panicked(f)
    ELSE LET line == text \o <<"\n">>
             d == f[k].data
             dup == Len(d) >= Len(line) /\ SubSeq(d, Len(d) - Len(line) + 1, Len(d)) = line
         IN  IF dup THEN Returned(<<>>, f)
             ELSE Returned(<<>>, [f EXCEPT ![k] = FileNode(d \o line)])

\* mutant: the file opened with create(true) as well
append_create(f, fp, text) ==
    LET k == Key(fp) IN
    IF IsDir(f, k) \/ ~IsDir(f, Parent(k)) THEN Panicked(f)
    ELSE LET d == IF IsFile(f, k) THEN f[k].data ELSE <<>>
         IN  Returned(<<>>, [x \in DOMAIN f \cup {k} |->
                                IF x = k THEN FileNode(d \o text \o <<"\n">>) ELSE f[x]])

\* OpenOptions::new().append(true).open, then writeln!
append_to_note(f, fp, text) ==
    LET k == Key(fp) IN
    IF ~IsFile(f, k) THEN Panicked(f)
    ELSE Returned(<<>>, [f EXCEPT ![k] = FileNode(f[k].data \o text \o <<"\n">>)])

(***************************************************************************)
(* Specification of the note store: calls as main makes them               *)
(***************************************************************************)
StoreExprs == {None, Some(<<"a">>), Some(<<"a", "/">>), Some(<<"b", "-", "a">>),
               Some(<<"a", ".", "m", "d", "/">>), Some(<<>>)}
AppendTexts == {<<"x">>, <<>>}
\* what an editor may leave in the file
EditorContents == {<<>>, <<" ", "\n">>, <<"x", "\n">>, <<"0xFF", "x">>}

Call(op, arg, res) ==
    [op |-> op, arg |-> arg, today |-> today, status |-> res.status,
     ret |-> res.ret, pre |-> fs]
NoCall == [op |-> "none", arg |-> None, today |-> <<>>, status |-> "ok",
           ret |-> <<>>, pre |-> <<>>]

Drop(f, k) == [x \in DOMAIN f \ {k} |-> f[x]]
Put(f, k, v) == [x \in DOMAIN f \cup {k} |-> IF x = k THEN v ELSE f[x]]

\* main, lines 306: let file_path = open_note(&notes_dir, cli.path)
OpenNote(path) ==
    LET res == open_note(fs, NotesDir, path, today)
        k == Key(res.ret)
    IN  /\ ops < MaxOps
        /\ ops' = ops + 1
        /\ fs' = res.fs
        /\ file_path' = IF res.status = "ok" THEN Some(res.ret) ELSE None
        /\ prev' = last
        /\ last' = Call("open", path, res)
        /\ log' = IF res.status = "ok" /\ ~Exists(fs, k)
                  THEN Put(log, k, resolve_note(path, today).header \o <<"\n", "\n">>)
                  ELSE log
        /\ UNCHANGED <<today, tcVars, rsVars, lsVars>>

\* main, lines 313-316: append_to_note(&file_path, text)
AppendToNote(text) ==
    /\ ops < MaxOps
    /\ IsSome(file_path)
    /\ LET res == append_to_note(fs, Unwrap(file_path), text)
           k == Key(Unwrap(file_path))
       IN  /\ fs' = res.fs
           /\ prev' = last
           /\ last' = Call("append", Some(text), [res EXCEPT !.ret = Unwrap(file_path)])
           /\ log' = IF k \in DOMAIN log
                     THEN [log EXCEPT ![k] = @ \o text \o <<"\n">>] ELSE log
    /\ ops' = ops + 1
    /\ UNCHANGED <<today, file_path, tcVars, rsVars, lsVars>>

\* main, lines 318-326: the editor runs on file_path and saves what the user typed
EditorWrite(content) ==
    /\ ops < MaxOps
    /\ IsSome(file_path)
    /\ IsFile(fs, Key(Unwrap(file_path)))
    /\ fs' = [fs EXCEPT ![Key(Unwrap(file_path))] = FileNode(content)]
    /\ prev' = last
    /\ last' = Call("edit", Some(content), Returned(Unwrap(file_path), fs))
    /\ log' = Drop(log, Key(Unwrap(file_path)))
    /\ ops' = ops + 1
    /\ UNCHANGED <<today, file_path, tcVars, rsVars, lsVars>>

\* midnight passes between two runs of the program
Midnight ==
    /\ \E d \in Dates \ {today} : today' = d
    /\ prev' = last
    /\ last' = [NoCall EXCEPT !.op = "midnight"]
    /\ ops < MaxOps
    /\ ops' = ops + 1
    /\ UNCHANGED <<fs, file_path, log, tcVars, rsVars, lsVars>>

StNext ==
    \/ \E path \in StoreExprs : OpenNote(path)
    \/ \E text \in AppendTexts : AppendToNote(text)
    \/ \E content \in EditorContents : EditorWrite(content)
    \/ Midnight


(***************************************************************************)
(* Specification of the store's functions called directly, as the tests    *)
(* call them: any expression, any path                                     *)
(***************************************************************************)
CallExprs == {None, Some(<<"a">>), Some(<<"a", "/">>), Some(<<"/", "a">>), Some(<<"/">>)}
CallPaths == {<<"/", "n", "/", "a", ".", "m", "d">>,
              <<"/", "n", "/", "q", "/", "a", ".", "m", "d">>}

\* append_to_note(path, text) on a path of the caller's choice
AppendDirect(fp, text) ==
    /\ ops < MaxOps
    /\ LET res == append_to_note(fs, fp, text)
           k == Key(fp)
       IN  /\ fs' = res.fs
           /\ prev' = last
           /\ last' = Call("append", Some(text), [res EXCEPT !.ret = fp])
           /\ log' = IF k \in DOMAIN log /\ res.status = "ok"
                     THEN [log EXCEPT ![k] = @ \o text \o <<"\n">>] ELSE log
    /\ ops' = ops + 1
    /\ UNCHANGED <<today, file_path, tcVars, rsVars, lsVars>>

CallNext ==
    \/ \E path \in CallExprs : OpenNote(path)
    \/ \E fp \in CallPaths, text \in AppendTexts : AppendDirect(fp, text)

(***************************************************************************)
(* list_tree, list_notes                                                   *)
(***************************************************************************)
LinkNode == [kind |-> "link", data |-> <<>>]

\* the bytes of the characters that occur in file names
Byte(c) ==
    CASE c = "." -> 46
      [] c = "A" -> 65
      [] c = "a" -> 97
      [] c = "b" -> 98
      [] c = "c" -> 99
      [] c = "d" -> 100
      [] c = "g" -> 103
      [] c = "m" -> 109
      [] c = "n" -> 110

\* Ord of OsString: byte by byte, a proper prefix first
RECURSIVE NameLess(_, _)
NameLess(a, b) ==
    IF b = <<>> THEN FALSE
    ELSE IF a = <<>> THEN TRUE
    ELSE IF Head(a) # Head(b) THEN Byte(Head(a)) < Byte(Head(b))
    ELSE NameLess(Tail(a), Tail(b))

\* DirEntry::file_name
Name(k) == k[Len(k)]

\* fs::read_dir: the entries of a directory
ReadDir(f, dir) == {k \in DOMAIN f : Len(k) = Len(dir) + 1 /\ Parent(k) = dir}

\* entries.sort_by_key(|e| e.file_name())
RECURSIVE SortByName(_, _)
SortByName(f, S) ==
    IF S = {} THEN <<>>
    ELSE LET m == CHOOSE k \in S : \A o \in S \ {k} : NameLess(Name(k), Name(o))
         IN  <<m>> \o SortByName(f, S \ {m})

\* mutant: every directory is kept
KeepAllDirs(f, e) ==
    IF IsDir(f, e) THEN TRUE
    ELSE Extension(Name(e)) = Some(<<"m", "d">>)

\* the filter closure: no dot directories, only .md among the rest
Keep(f, e) ==
    IF IsDir(f, e) THEN ~StartsWith(Name(e), ".")
    ELSE Extension(Name(e)) = Some(<<"m", "d">>)

\* mutant: one level more than asked for
DepthReachedAbove(max_depth, depth) == IsSome(max_depth) /\ depth > Unwrap(max_depth)

\* max_depth.is_some_and(|m| depth >= m)
DepthReached(max_depth, depth) == IsSome(max_depth) /\ depth >= Unwrap(max_depth)

Tee == <<"U+251C", "U+2500", "U+2500", " ">>
Ell == <<"U+2514", "U+2500", "U+2500", " ">>
Bar == <<"U+2502", " ", " ", " ">>
Gap == <<" ", " ", " ", " ">>

Connector(is_last) == IF is_last THEN Ell ELSE Tee

\* mutant: the bar drawn beneath the last entry, the gap beneath the others
ChildPrefixSwapped(prefix, is_last) == prefix \o (IF is_last THEN Bar ELSE Gap)

ChildPrefix(prefix, is_last) == prefix \o (IF is_last THEN Gap ELSE Bar)

DisplayName(f, e) == IF IsFile(f, e) THEN Name(e) ELSE Name(e) \o <<"/">>

\* what list_tree pushes onto output, as rows [entry, line]: the line pushed
\* and the directory entry it was pushed for
RECURSIVE list_tree(_, _, _, _, _)
list_tree(f, dir, prefix, max_depth, depth) ==
    IF DepthReached(max_depth, depth) THEN <<>>
    ELSE LET sorted == SortByName(f, ReadDir(f, dir))
             entries == SelectSeq(sorted, LAMBDA e : Keep(f, e))
             Rows(i) ==
                 LET entry == entries[i]
                     is_last == i = Len(entries)
                     line == prefix \o Connector(is_last) \o DisplayName(f, entry) \o <<"\n">>
                 IN  <<[entry |-> entry, line |-> line]>> \o
                     (IF IsDir(f, entry)
                      THEN list_tree(f, entry, ChildPrefix(prefix, is_last), max_depth, depth + 1)
                      ELSE <<>>)
         IN  Flatten([i \in 1..Len(entries) |-> Rows(i)])

NotADirectory == <<" ", "i", "s", " ", "n", "o", "t", " ", "a", " ",
                   "d", "i", "r", "e", "c", "t", "o", "r", "y", "\n">>

\* the returned String as text, the entries its lines are for as walk
list_notes(f, notes_dir, path, max_depth) ==
    LET root == IF IsSome(path) THEN PathJoin(notes_dir, Unwrap(path)) ELSE notes_dir
        label == IF IsSome(path) THEN Unwrap(path) ELSE <<".">>
    IN  IF ~IsDir(f, Key(root)) THEN [text |-> root \o NotADirectory, walk |-> <<>>]
        ELSE LET rows == list_tree(f, Key(root), <<>>, max_depth, 0)
             IN  [text |-> label \o <<"\n">> \o Flatten([i \in 1..Len(rows) |-> rows[i].line]),
                  walk |-> [i \in 1..Len(rows) |-> rows[i].entry]]

(***************************************************************************)
(* Specification of the renderer: a tree is built, then listed             *)
(***************************************************************************)
\* names and kinds of the entries a directory may get
EntryChoices ==
    {<<<<".", "g">>, DirNode>>, <<<<"a">>, DirNode>>, <<<<"c">>, DirNode>>,
     <<<<"b", ".", "m", "d">>, FileNode(<<>>)>>, <<<<"n">>, FileNode(<<>>)>>,
     <<<<"A", ".", "m", "d">>, LinkNode>>}
ListPaths ==
    {None, Some(<<"a">>), Some(<<".", "g">>), Some(<<"a", "/", "c">>),
     Some(<<"b", ".", "m", "d">>)}
DepthArgs == {None} \cup {Some(n) : n \in 1..MaxDepthArg}

\* a file, directory or symlink appears beneath the notes directory
AddEntry(parent, choice) ==
    /\ ls_out = None
    /\ IsDir(fs, parent)
    /\ Len(parent) >= 1
    /\ Append(parent, choice[1]) \notin DOMAIN fs
    /\ Cardinality(DOMAIN fs) < MaxEntries + 2
    /\ fs' = Put(fs, Append(parent, choice[1]), choice[2])
    /\ UNCHANGED <<today, file_path, ops, last, prev, log, tcVars, rsVars, lsVars>>

\* main, lines 297-301: list_notes(&notes_dir, path, depth)
ListNotes(path, max_depth) ==
    /\ ls_out = None
    /\ ls_path' = path
    /\ ls_depth' = max_depth
    /\ ls_out' = Some(list_notes(fs, NotesDir, path, max_depth))
    /\ UNCHANGED <<tcVars, rsVars, stVars>>

LsNext ==
    \/ \E parent \in DOMAIN fs, choice \in EntryChoices : AddEntry(parent, choice)
    \/ \E path \in ListPaths, max_depth \in DepthArgs : ListNotes(path, max_depth)

(***************************************************************************)
(* Specification of titlecase: the argument is drawn, the function applied *)
(***************************************************************************)
TitleInputs == SeqsUpTo(TitleAlphabet, MaxTitleLen)

Titlecase ==
    /\ tc_out = None
    /\ tc_out' = Some(titlecase(tc_in))
    /\ UNCHANGED <<tc_in, rsVars, stVars, lsVars>>

(***************************************************************************)
(* Specification of resolve_note                                           *)
(***************************************************************************)
Exprs == {None} \cup {Some(s) : s \in SeqsUpTo(ExprAlphabet, MaxExprLen)}


ResolveNote ==
    /\ rs_out = None
    /\ rs_out' = Some(resolve_note(rs_in, rs_today))
    /\ UNCHANGED <<rs_in, rs_today, tcVars, stVars, lsVars>>

\* the note store: an empty notes directory
Init ==
    /\ tc_in = <<>> /\ tc_out = None
    /\ rs_in = None /\ rs_today = <<>> /\ rs_out = None
    /\ fs = [k \in {<<>>, <<<<"n">>>>} |-> DirNode]
    /\ today \in Dates
    /\ file_path = None
    /\ ops = 0
    /\ last = NoCall
    /\ prev = NoCall
    /\ log = <<>>
    /\ ls_path = None /\ ls_depth = None /\ ls_out = None

\* the renderer: an empty notes directory, to be filled
InitTree ==
    /\ tc_in = <<>> /\ tc_out = None
    /\ rs_in = None /\ rs_today = <<>> /\ rs_out = None
    /\ fs = [k \in {<<>>, <<<<"n">>>>} |-> DirNode]
    /\ today = <<>> /\ file_path = None /\ ops = 0
    /\ last = NoCall /\ prev = NoCall /\ log = <<>>
    /\ ls_path = None /\ ls_depth = None /\ ls_out = None

InitTitle ==
    /\ tc_in \in TitleInputs /\ tc_out = None
    /\ rs_in = None /\ rs_today = <<>> /\ rs_out = None
    /\ fs = <<>> /\ today = <<>> /\ file_path = None /\ ops = 0
    /\ last = NoCall /\ prev = NoCall /\ log = <<>>
    /\ ls_path = None /\ ls_depth = None /\ ls_out = None

InitResolve ==
    /\ tc_in = <<>> /\ tc_out = None
    /\ rs_in \in Exprs /\ rs_today \in Dates /\ rs_out = None
    /\ fs = <<>> /\ today = <<>> /\ file_path = None /\ ops = 0
    /\ last = NoCall /\ prev = NoCall /\ log = <<>>
    /\ ls_path = None /\ ls_depth = None /\ ls_out = None

Spec == Init /\ [][StNext]_vars
SpecTree == InitTree /\ [][LsNext]_vars
SpecCalls == Init /\ [][CallNext]_vars
SpecTitle == InitTitle /\ [][Titlecase]_vars
SpecResolve == InitResolve /\ [][ResolveNote]_vars

(***************************************************************************)
(* Properties of the note store                                            *)
(***************************************************************************)
Opened == last.op = "open" /\ last.status = "ok"
\* the note the last open_note was about
Resolved == resolve_note(last.arg, last.today)
NoteKey == Key(PathJoin(NotesDir, Resolved.path))
Fresh == Resolved.header \o <<"\n", "\n">>
BlankBefore == IsFile(last.pre, NoteKey) /\ Trim(last.pre[NoteKey].data) = <<>>
MissingBefore == ~Exists(last.pre, NoteKey)

\* C1: open_note rewrites the note only when it was missing or its content,
\* trimmed of whitespace, was empty: an existing file with any other content
\* has the same bytes after the call as before it.
C1_NeverTouched ==
    (Opened /\ IsFile(last.pre, NoteKey) /\ ~BlankBefore) =>
        fs[NoteKey] = last.pre[NoteKey]

\* C2: when the note was missing, empty or whitespace-only, a returning
\* open_note leaves a file at notes_root/relative_path whose content is exactly
\* the resolver's heading, a newline and a blank line, beneath directories that
\* all exist.
C2_BlankIsMissing ==
    (Opened /\ (MissingBefore \/ BlankBefore)) =>
        /\ IsFile(fs, NoteKey)
        /\ fs[NoteKey].data = Fresh
        /\ \A p \in Prefixes(Parent(NoteKey)) : IsDir(fs, p)

\* whitespace-only content was overwritten by the heading
C2_Witness ==
    /\ Opened
    /\ BlankBefore
    /\ last.pre[NoteKey].data = <<" ", "\n">>
    /\ fs[NoteKey].data = Fresh

\* C3: two open_note calls in succession on the same expression, on the same
\* date, end the same way and return the same path, and the second leaves the
\* filesystem exactly as the first left it.
C3_Idempotent ==
    (last.op = "open" /\ prev.op = "open" /\ last.arg = prev.arg
        /\ last.today = prev.today) =>
        /\ last.status = prev.status
        /\ last.ret = prev.ret
        /\ fs = last.pre

\* the first of the two calls found content it could not read and rewrote it
C3_Witness ==
    /\ Opened
    /\ prev.op = "open" /\ prev.arg = last.arg /\ prev.today = last.today
    /\ IsFile(prev.pre, NoteKey)
    /\ prev.pre[NoteKey].data = <<"0xFF", "x">>
    /\ fs[NoteKey].data = Fresh

\* C4: a returning append_to_note(path, text) leaves the file with its earlier
\* bytes followed by text and a newline and changes nothing else; so a note
\* that open_note created holds its heading, a blank line and then every text
\* appended since, one per line in call order, repeats included, however many
\* open_note calls came in between.
C4_AppendLog ==
    /\ (last.op = "append" /\ last.status = "ok") =>
          /\ DOMAIN fs = DOMAIN last.pre
          /\ \A k \in DOMAIN fs :
                fs[k] = IF k = Key(last.ret)
                        THEN FileNode(last.pre[k].data \o Unwrap(last.arg) \o <<"\n">>)
                        ELSE last.pre[k]
    /\ \A k \in DOMAIN log : IsFile(fs, k) /\ fs[k].data = log[k]

\* the same text appended twice, with an open_note between the two
C4_Witness ==
    /\ last.op = "append" /\ last.status = "ok"
    /\ prev.op = "open" /\ prev.status = "ok"
    /\ Key(last.ret) \in DOMAIN log
    /\ \E h \in SeqsUpTo({"#", " ", "A"}, 3) :
          log[Key(last.ret)] = h \o <<"\n", "\n", "x", "\n", "x", "\n">>

\* the ".." segments of a path
DotDots(p) == Cardinality({i \in 1..Len(Split(p, {"/"})) : Split(p, {"/"})[i] = <<".", ".">>})

\* C11: the file a returning open_note materializes and returns lies at the
\* components of notes_root followed by the components of the resolved
\* relative path; the resolved path is relative and has no ".." segment that
\* the expression did not have.
C11_InsideRoot ==
    Opened =>
        /\ Key(last.ret) = Key(NotesDir) \o Components(Resolved.path)
        /\ IsFile(fs, Key(NotesDir) \o Components(Resolved.path))
        /\ ~StartsWith(Resolved.path, "/")
        /\ DotDots(Resolved.path) <=
              (IF IsSome(last.arg) THEN DotDots(Unwrap(last.arg)) ELSE 0)

AppendedMissing == last.op = "append" /\ ~Exists(last.pre, Key(last.ret))

\* C12: append_to_note on a path at which no file exists ends in a fatal
\* error and leaves the filesystem as it was: no file is created, nothing is
\* written.
C12_AppendMissing ==
    AppendedMissing =>
        /\ last.status = "panic"
        /\ fs = last.pre
        /\ ~Exists(fs, Key(last.ret))

\* the failed append comes after a note was created next to the missing one
C12_Witness ==
    /\ AppendedMissing
    /\ last.status = "panic"
    /\ prev.op = "open" /\ prev.status = "ok"
    /\ IsDir(fs, Parent(Key(last.ret)))

(***************************************************************************)
(* Properties of the renderer                                              *)
(***************************************************************************)
LsRoot == IF IsSome(ls_path) THEN Key(PathJoin(NotesDir, Unwrap(ls_path))) ELSE Key(NotesDir)
LsLabel == IF IsSome(ls_path) THEN Unwrap(ls_path) ELSE <<".">>
Listed == IsSome(ls_out) /\ IsDir(fs, LsRoot)
LsText == Unwrap(ls_out).text
LsWalk == Unwrap(ls_out).walk

Beneath(k, dir) == Len(k) > Len(dir) /\ SubSeq(k, 1, Len(dir)) = dir
\* root's direct children are level 0
Level(k) == Len(k) - Len(LsRoot) - 1
WithinDepth(k) == IsSome(ls_depth) => Level(k) < Unwrap(ls_depth)

DotDir(q) == IsDir(fs, q) /\ StartsWith(Name(q), ".")
Visible(q) == IF IsDir(fs, q) THEN ~DotDir(q) ELSE Extension(Name(q)) = Some(<<"m", "d">>)
\* the entries beneath root that pass the filter, as all their ancestors do
Included(k) ==
    /\ Beneath(k, LsRoot)
    /\ \A i \in (Len(LsRoot) + 1)..Len(k) : Visible(SubSeq(k, 1, i))
IncludedSet == {k \in DOMAIN fs : Included(k) /\ WithinDepth(k)}

\* last among the displayed entries of its directory
LastShown(k) ==
    \A o \in ReadDir(fs, Parent(k)) : (Visible(o) /\ o # k) => NameLess(Name(o), Name(k))

RefPrefix(k) ==
    Flatten([j \in 1..Level(k) |->
        IF LastShown(SubSeq(k, 1, Len(LsRoot) + j)) THEN Gap ELSE Bar])

\* a symlink is neither a directory nor a file: either display is accepted
RefLine(k, linkSlash) ==
    RefPrefix(k) \o (IF LastShown(k) THEN Ell ELSE Tee) \o Name(k)
        \o (IF IsDir(fs, k) \/ (~IsFile(fs, k) /\ linkSlash) THEN <<"/">> ELSE <<>>)
        \o <<"\n">>

\* pre-order: a directory before what it holds, siblings by ascending name
PreOrderBefore(a, b) ==
    /\ a # b
    /\ \/ Beneath(b, a)
       \/ \E i \in 1..Len(a) :
             /\ i <= Len(b)
             /\ SubSeq(a, 1, i - 1) = SubSeq(b, 1, i - 1)
             /\ a[i] # b[i]
             /\ NameLess(a[i], b[i])

RECURSIVE PreOrder(_)
PreOrder(S) ==
    IF S = {} THEN <<>>
    ELSE LET m == CHOOSE k \in S : \A o \in S \ {k} : PreOrderBefore(k, o)
         IN  <<m>> \o PreOrder(S \ {m})

RefText(linkSlash) ==
    LET order == PreOrder(IncludedSet)
    IN  LsLabel \o <<"\n">> \o Flatten([i \in 1..Len(order) |-> RefLine(order[i], linkSlash)])

\* C8: list_notes on a directory outputs the label line and then one line per
\* included entry in pre-order, each level in ascending order of raw name with
\* directories and files interleaved; the last displayed entry of a level is
\* drawn with the corner and the others with the tee; a line beneath a
\* directory carries four spaces for that directory when it was last of its
\* level and the bar otherwise; directories end in '/'.
C8_Rendering ==
    Listed => LsText \in {RefText(TRUE), RefText(FALSE)}

\* a hidden entry sorts after the last displayed one, and a directory that is
\* not last holds an entry
C8_Witness ==
    /\ Listed
    /\ ls_depth = None
    /\ \E k \in IncludedSet :
          /\ LastShown(k)
          /\ \E o \in ReadDir(fs, Parent(k)) : ~Visible(o) /\ NameLess(Name(k), Name(o))
    /\ \E k \in IncludedSet : Level(k) = 1 /\ ~LastShown(Parent(k))

NumLines(text) == Cardinality({i \in 1..Len(text) : text[i] = "\n"})

\* C9: with max_depth = Some(N), N >= 1, the lines are for exactly the included
\* entries at levels 0..N-1, one line each; with None for all included
\* entries; with depth 1 for root's direct children only.
C9_DepthLimit ==
    Listed =>
        /\ {LsWalk[i] : i \in 1..Len(LsWalk)} = IncludedSet
        /\ Len(LsWalk) = Cardinality(IncludedSet)
        /\ NumLines(LsText) = Len(LsWalk) + 1
        /\ \A i \in 1..Len(LsWalk) :
              /\ IsSome(ls_depth) => Level(LsWalk[i]) < Unwrap(ls_depth)
              /\ ls_depth = Some(1) => Parent(LsWalk[i]) = LsRoot

\* entries of levels 0 and 1 are listed while one of level 2 is cut off
C9_Witness ==
    /\ Listed
    /\ ls_depth = Some(2)
    /\ Len(LsWalk) = 2
    /\ \E k \in DOMAIN fs : Included(k) /\ Level(k) = 2

\* C10 as claimed: whatever path is listed, no line is for a dot-prefixed
\* directory or for an entry located beneath one.
C10_NoDotAnywhere ==
    Listed =>
        \A i \in 1..Len(LsWalk) :
            \A j \in 2..Len(LsWalk[i]) : ~DotDir(SubSeq(LsWalk[i], 1, j))

\* C10, amended: no line is for a dot-prefixed directory located beneath the
\* listed root or for an entry beneath such a directory, at any depth setting,
\* while every other directory directly beneath the root is shown; the listed
\* root itself is not filtered.
C10_NoDotBeneathRoot ==
    Listed =>
        /\ \A i \in 1..Len(LsWalk) :
              \A j \in (Len(LsRoot) + 1)..Len(LsWalk[i]) : ~DotDir(SubSeq(LsWalk[i], 1, j))
        /\ \A k \in ReadDir(fs, LsRoot) :
              (IsDir(fs, k) /\ ~DotDir(k)) => \E i \in 1..Len(LsWalk) : LsWalk[i] = k

\* a dot directory that holds a note, beside a directory that is shown
C10_Witness ==
    /\ Listed
    /\ ls_path = None
    /\ \E d \in ReadDir(fs, LsRoot) :
          DotDir(d) /\ \E k \in ReadDir(fs, d) : Visible(k)
    /\ Len(LsWalk) = 1

(***************************************************************************)
(* Properties of titlecase                                                 *)
(***************************************************************************)
NumSeps(s) == Cardinality({i \in 1..Len(s) : s[i] \in TitlecaseSeps})

\* the result described position by position
TitleOf(s) ==
    Flatten([i \in 1..Len(s) |->
        IF s[i] \in TitlecaseSeps THEN <<" ">>
        ELSE IF i = 1 \/ s[i - 1] \in TitlecaseSeps THEN ToUppercase(s[i])
        ELSE <<s[i]>>])

\* C7: titlecase(s) splits s on every '-' and '_' into (separators + 1) words,
\* empty ones included; replaces the first character of each non-empty word by
\* its uppercase mapping and keeps every other character; and joins the words
\* with one space each, so that every separator becomes exactly one space.  A
\* separator-free s changes in its first character only.
C7_Titlecase ==
    IsSome(tc_out) =>
        /\ Len(Split(tc_in, TitlecaseSeps)) = NumSeps(tc_in) + 1
        /\ Unwrap(tc_out) = TitleOf(tc_in)
        /\ (NumSeps(tc_in) = 0 /\ tc_in # <<>>) =>
               Unwrap(tc_out) = ToUppercase(tc_in[1]) \o Tail(tc_in)

\* consecutive separators after a word whose first character expands
C7_Witness ==
    /\ IsSome(tc_out)
    /\ tc_in = <<"U+00DF", "-", "_">>
    /\ Unwrap(tc_out) = <<"S", "S", " ", " ">>

(***************************************************************************)
(* Properties of resolve_note                                              *)
(***************************************************************************)
\* the characters after the last '/' of an expression
LastSegment(s) == SubSeq(s, LastIndexOf(s, "/") + 1, Len(s))

Explicit == IsSome(rs_out) /\ IsSome(rs_in) /\ ~EndsWith(Unwrap(rs_in), "/")

\* C5: for every expression that is present and does not end in '/',
\* resolve_note returns the path "<input>.md" and the heading "# " followed by
\* titlecase of the final path segment of the input only.
C5_ExplicitName ==
    Explicit =>
        /\ Unwrap(rs_out).path = Unwrap(rs_in) \o DotMd
        /\ Unwrap(rs_out).header = Hash \o titlecase(LastSegment(Unwrap(rs_in)))

\* C6: with no expression resolve_note returns daily/<YYYY>/<MM-DD>.md, with an
\* expression ending in '/' it returns <input><YYYY-MM-DD>.md, whatever else
\* the expression holds; in both cases the heading is "# <YYYY-MM-DD>", not
\* titlecased.
C6_DateBased ==
    IsSome(rs_out) =>
        /\ ~IsSome(rs_in) =>
              /\ Unwrap(rs_out).path =
                     Daily \o <<"/">> \o SubSeq(rs_today, 1, 4) \o <<"/">>
                           \o SubSeq(rs_today, 6, 10) \o DotMd
              /\ Unwrap(rs_out).header = Hash \o rs_today
        /\ (IsSome(rs_in) /\ EndsWith(Unwrap(rs_in), "/")) =>
              /\ Unwrap(rs_out).path = Unwrap(rs_in) \o rs_today \o DotMd
              /\ Unwrap(rs_out).header = Hash \o rs_today

C6_Witness ==
    /\ IsSome(rs_out)
    /\ rs_in = Some(<<"a", "/", "b", "/">>)
    /\ Unwrap(rs_out).path = <<"a", "/", "b", "/">> \o rs_today \o DotMd
    /\ Unwrap(rs_out).header = Hash \o rs_today

====
